---- MODULE Spec2Model ----
(***************************************************************************)
(* Model of src/entity.rs: Entity, IndexedEntity, IndexPool, the event     *)
(* queue and EntityManager, with the collaborators the manager calls       *)
(* (component manager, system manager, builder, aspect, writer) reduced to *)
(* what the manager can observe of them.                                   *)
(***************************************************************************)
EXTENDS Integers, Sequences, FiniteSets, TLC

(* ------------------------------ bounds --------------------------------- *)
\* create is called at most MaxId times (next_id is a u64 counter).
MaxId == 4
\* event_queue holds at most MaxQueue events between two flushes.
MaxQueue == 2
\* a traversal is started with at most MaxLive entities in the map.
MaxLive == 3

(* ------------------------------ values --------------------------------- *)
\* Entity::nil(): Entity(0).
nil == 0

\* Every Entity value: nil, or an identifier of the range the model issues.
Entity == 0..MaxId

\* The Entity values a caller has from a manager whose counter is n: nil and
\* the identifiers create has returned (the field of Entity is private).
Held(n) == 0..n

\* Dense indices: get_index mints at most one index per create.
Index == 0..(MaxId - 1)

\* enum Event { BuildEntity(Entity), RemoveEntity(Entity) }
BuildEntity(e) == [kind |-> "BuildEntity", entity |-> e]
RemoveEntity(e) == [kind |-> "RemoveEntity", entity |-> e]

\* struct IndexedEntity(usize, Entity, PhantomData)
IndexedEntity(i, e) == [index |-> i, entity |-> e]

Last(s) == s[Len(s)]
Front(s) == SubSeq(s, 1, Len(s) - 1)
Range(s) == {s[i] : i \in 1..Len(s)}

VARIABLES
    indices,       \* EntityManager.indices: [recycled, next_index]
    entities,      \* EntityManager.entities: Entity -> IndexedEntity
    event_queue,   \* EntityManager.event_queue
    next_id,       \* EntityManager.next_id
    components,    \* the ComponentManager c: attribute held at each index
    panicked,      \* a panic (failed HashMap index) has unwound the program
    issued,        \* history: the identifiers create has returned, in order
    peak,          \* history: the largest number of entities the map has held
    last_freed,    \* the index the latest remove freed, if no create followed
    last,          \* the most recent call: its name, argument and result
    flushed,       \* the queue the most recent flush_queue took, and how
                   \* many of its events were processed
    notified,      \* the collaborator notifications the most recent call
                   \* delivered, in order
    written,       \* what the most recent write put into the writer
    yielded        \* what the most recent filtered traversal yielded

mgr == <<indices, entities, event_queue, next_id>>
vars == <<indices, entities, event_queue, next_id, components, panicked,
          issued, peak, last_freed, last, flushed, notified, written, yielded>>

(* ------------------------------ IndexPool ------------------------------ *)
\* IndexPool::new
IndexPool_new == [recycled |-> <<>>, next_index |-> 0]

\* IndexPool::count
IndexPool_count(pool) == pool.next_index - Len(pool.recycled)

\* A pool that hands out the smallest freed index instead of the last one.
get_index_smallest(pool) ==
    IF Len(pool.recycled) > 0
    THEN LET k == CHOOSE i \in 1..Len(pool.recycled) :
                      \A j \in 1..Len(pool.recycled) :
                          pool.recycled[i] <= pool.recycled[j]
         IN [pool |-> [pool EXCEPT !.recycled =
                          SubSeq(@, 1, k - 1) \o SubSeq(@, k + 1, Len(@))],
             id   |-> pool.recycled[k]]
    ELSE [pool |-> [pool EXCEPT !.next_index = @ + 1],
          id   |-> pool.next_index]

\* A pool that reuses the oldest freed index (queue instead of stack).
get_index_fifo(pool) ==
    IF Len(pool.recycled) > 0
    THEN [pool |-> [pool EXCEPT !.recycled = Tail(@)],
          id   |-> Head(pool.recycled)]
    ELSE [pool |-> [pool EXCEPT !.next_index = @ + 1],
          id   |-> pool.next_index]

\* A pool that reads the last freed index and leaves it in the list.
get_index_peek(pool) ==
    IF Len(pool.recycled) > 0
    THEN [pool |-> pool, id |-> Last(pool.recycled)]
    ELSE [pool |-> [pool EXCEPT !.next_index = @ + 1],
          id   |-> pool.next_index]

\* A pool that mints a new index although a freed one is available.
get_index_fresh(pool) ==
    [pool |-> [pool EXCEPT !.next_index = @ + 1], id |-> pool.next_index]

\* IndexPool::get_index: recycled.pop(), else next_index++.
get_index(pool) ==
    IF Len(pool.recycled) > 0
    THEN [pool |-> [pool EXCEPT !.recycled = Front(@)],
          id   |-> Last(pool.recycled)]
    ELSE [pool |-> [pool EXCEPT !.next_index = @ + 1],
          id   |-> pool.next_index]

\* A return_id that forgets the index.
return_id_lost(pool, id) == pool

\* IndexPool::return_id: recycled.push(id).
return_id(pool, id) == [pool EXCEPT !.recycled = Append(@, id)]

(* ---------------------------- EntityManager ---------------------------- *)
\* The manager as one value, for the operators below.
Self == [indices |-> indices, entities |-> entities,
         event_queue |-> event_queue, next_id |-> next_id]

\* EntityManager::new
EntityManager_new ==
    [indices |-> IndexPool_new, entities |-> <<>>,
     event_queue |-> <<>>, next_id |-> 0]

\* EntityManager::is_valid: entities.contains_key(entity)
is_valid(m, e) == e \in DOMAIN m.entities

\* EntityManager::count
count(m) == IndexPool_count(m.indices)

\* A counter that is read before it is incremented.
fresh_id_stale(n) == n

\* EntityManager::create, lines 259-260: next_id += 1; Entity(next_id)
fresh_id(n) == n + 1

\* Map insertion (HashMap::insert).
Insert(map, k, v) ==
    [x \in (DOMAIN map) \cup {k} |-> IF x = k THEN v ELSE map[x]]

\* Map removal (HashMap::remove).
Delete(map, k) == [x \in (DOMAIN map) \ {k} |-> map[x]]

\* EntityManager::create: the manager after the call and the Entity returned.
EntityManager_create(m) ==
    LET id  == fresh_id(m.next_id)
        got == get_index(m.indices)
    IN [m   |-> [m EXCEPT !.next_id = id,
                          !.indices = got.pool,
                          !.entities = Insert(@, id, IndexedEntity(got.id, id))],
        ret |-> id]

\* A remove that frees the index of the entity and keeps its binding.
EntityManager_remove_keep_binding(m, e) ==
    IF is_valid(m, e)
    THEN [m EXCEPT !.indices = return_id(@, m.entities[e].index)]
    ELSE m

\* A remove that frees index 0 when the entity is not in the map
\* (unwrap_or_default in place of Option::map).
EntityManager_remove_blind(m, e) ==
    IF is_valid(m, e)
    THEN [m EXCEPT !.entities = Delete(@, e),
                   !.indices = return_id(@, m.entities[e].index)]
    ELSE [m EXCEPT !.indices = return_id(@, 0)]

\* EntityManager::remove: entities.remove(e).map(|x| indices.return_id(x.index()))
EntityManager_remove(m, e) ==
    IF is_valid(m, e)
    THEN [m EXCEPT !.entities = Delete(@, e),
                   !.indices = return_id(@, m.entities[e].index)]
    ELSE m

\* A lookup that falls back to the nil binding when the key is absent.
indexed_lenient(m, e) ==
    IF e \in DOMAIN m.entities
    THEN [ok |-> TRUE, value |-> m.entities[e]]
    ELSE [ok |-> TRUE, value |-> IndexedEntity(0, nil)]

\* EntityManager::indexed: &self.entities[entity]; the index operator of
\* HashMap panics when the key is absent.
indexed(m, e) ==
    IF e \in DOMAIN m.entities
    THEN [ok |-> TRUE, value |-> m.entities[e]]
    ELSE [ok |-> FALSE, value |-> IndexedEntity(0, nil)]

(* ----------------------------- collaborators --------------------------- *)
\* The attribute tables hold, at each index, the attribute a builder wrote
\* there, told apart by the entity it was written for; 0 is no attribute.
NoComponents == [i \in Index |-> 0]

\* EntityBuilder::build with BuildData(indexed): a builder that writes
\* (b = TRUE) puts the attribute of its entity at the entity's index; the
\* empty builder writes nothing.
build(c, ix, b) == IF b THEN [c EXCEPT ![ix.index] = ix.entity] ELSE c

\* ComponentManager::__remove_all(indexed): strips the attributes at the index.
remove_all(c, ix) == [c EXCEPT ![ix.index] = 0]

\* The aspects: a set of BOOLEAN, accepting an entity by whether an
\* attribute is present at its index ({TRUE, FALSE} is Aspect::all, {} is
\* Aspect::none, {TRUE} requires the attribute, {FALSE} excludes it).
Aspects == SUBSET BOOLEAN

\* Aspect::check(&x, components)
check(aspect, ix, c) == (c[ix.index] # 0) \in aspect

\* One delivered collaborator call of flush_queue, with what the callee can
\* see when it is called: the binding, the attribute at its index, whether
\* the entity is still mapped and whether its index is in the recycled list.
Note(call, m, c, ix) ==
    [call   |-> call,
     entity |-> ix.entity,
     index  |-> ix.index,
     attr   |-> c[ix.index],
     live   |-> is_valid(m, ix.entity),
     free   |-> ix.index \in Range(m.indices.recycled)]

(* ------------------------------ flush_queue ---------------------------- *)
\* The state a flush works on: manager, components, delivered calls, the
\* number of events processed, and whether a lookup has panicked.
FlushState(m, c, log, p) ==
    [m |-> m, c |-> c, log |-> log, done |-> 0, panicked |-> p]

\* flush_queue, the BuildEntity arm: s.__activated(EntityData(indexed), c, m)
BuildArm(st, e) ==
    LET got == indexed(st.m, e)
    IN IF ~got.ok
       THEN [st EXCEPT !.panicked = TRUE]
       ELSE [st EXCEPT !.log = Append(@, Note("activated", st.m, st.c, got.value)),
                       !.done = @ + 1]

\* A RemoveEntity arm that removes the binding and frees the index before it
\* notifies and strips.
RemoveArm_remove_first(st, e) ==
    LET got == indexed(st.m, e)
    IN IF ~got.ok
       THEN [st EXCEPT !.panicked = TRUE]
       ELSE LET c1 == remove_all(st.c, got.value)
                m1 == EntityManager_remove(st.m, e)
            IN [st EXCEPT
                  !.log = @ \o <<Note("deactivated", m1, st.c, got.value),
                                 Note("remove_all", m1, c1, got.value)>>,
                  !.c = c1,
                  !.m = m1,
                  !.done = @ + 1]

\* flush_queue, the RemoveEntity arm: __deactivated, __remove_all, remove.
RemoveArm(st, e) ==
    LET got == indexed(st.m, e)
    IN IF ~got.ok
       THEN [st EXCEPT !.panicked = TRUE]
       ELSE LET c1 == remove_all(st.c, got.value)
            IN [st EXCEPT
                  !.log = @ \o <<Note("deactivated", st.m, st.c, got.value),
                                 Note("remove_all", st.m, c1, got.value)>>,
                  !.c = c1,
                  !.m = EntityManager_remove(st.m, e),
                  !.done = @ + 1]

\* flush_queue, the loop `for e in queue`: a panic unwinds out of the loop
\* and drops the events not yet processed.
RECURSIVE FlushLoop(_, _)
FlushLoop(st, queue) ==
    IF queue = <<>> \/ st.panicked
    THEN st
    ELSE LET e == Head(queue)
         IN FlushLoop(IF e.kind = "BuildEntity" THEN BuildArm(st, e.entity)
                                                ELSE RemoveArm(st, e.entity),
                      Tail(queue))

\* EntityManager::flush_queue: the queue is replaced by an empty one first.
EntityManager_flush_queue(m, c) ==
    FlushLoop(FlushState([m EXCEPT !.event_queue = <<>>], c, <<>>, FALSE),
              m.event_queue)

(* ------------------------------ traversal ------------------------------ *)
\* All orders in which a HashMap may present the keys S.
Orders(S) ==
    {o \in [1..Cardinality(S) -> S] : \A i, j \in DOMAIN o : o[i] = o[j] => i = j}

\* EntityManager::iter: EntityIter::Map(entities.values()); the values come
\* in the map's iteration order, which the caller cannot choose.
iter(m, order) == [i \in 1..Len(order) |-> m.entities[order[i]]]

\* Iterator for EntityIter::next: [some, item, inner] with the iterator left.
EntityIter_next(inner) ==
    IF inner = <<>>
    THEN [some |-> FALSE, item |-> IndexedEntity(0, nil), inner |-> inner]
    ELSE [some |-> TRUE, item |-> Head(inner), inner |-> Tail(inner)]

\* A filter that stops at the first element the aspect rejects.
FilteredEntityIter_next_break(inner, aspect, c) ==
    LET x == EntityIter_next(inner)
    IN IF ~x.some \/ check(aspect, x.item, c)
       THEN x
       ELSE [some |-> FALSE, item |-> IndexedEntity(0, nil), inner |-> x.inner]

\* Iterator for FilteredEntityIter::next: the first element of the inner
\* iterator that the aspect accepts, None at exhaustion.
RECURSIVE FilteredEntityIter_next(_, _, _)
FilteredEntityIter_next(inner, aspect, c) ==
    LET x == EntityIter_next(inner)
    IN IF ~x.some \/ check(aspect, x.item, c)
       THEN x
       ELSE FilteredEntityIter_next(x.inner, aspect, c)

\* The caller's loop over a filtered iterator: next until None.
RECURSIVE Collect(_, _, _)
Collect(inner, aspect, c) ==
    LET x == FilteredEntityIter_next(inner, aspect, c)
    IN IF x.some THEN <<x.item>> \o Collect(x.inner, aspect, c) ELSE <<>>

(* ---------------------------- serialisation ---------------------------- *)
\* What a writer has received: the three fields of EntityManager in the
\* order written; a field not written is the empty sequence.
Written(i, e, n) == [indices |-> i, entities |-> e, next_id |-> n]
NothingWritten == Written(<<>>, <<>>, <<>>)

\* CerealData for IndexPool::write: len, each recycled index, next_index.
IndexPool_write(pool) ==
    <<Len(pool.recycled)>> \o pool.recycled \o <<pool.next_index>>

\* CerealData for IndexedEntity::write: the index, then the entity.
IndexedEntity_write(ix) == <<ix.index, ix.entity>>

\* The HashMap encoding of the entities field: its entries, each a key with
\* its encoded value, in no particular order.
entities_write(map) ==
    <<{<<e>> \o IndexedEntity_write(map[e]) : e \in DOMAIN map}>>

\* A write that serialises without looking at the event queue.
EntityManager_write_unguarded(m, fail) ==
    IF fail = 1 THEN [result |-> "Io", written |-> NothingWritten]
    ELSE IF fail = 2
    THEN [result |-> "Io",
          written |-> Written(IndexPool_write(m.indices), <<>>, <<>>)]
    ELSE [result |-> IF fail = 3 THEN "Io" ELSE "Ok",
          written |-> Written(IndexPool_write(m.indices),
                              entities_write(m.entities),
                              IF fail = 3 THEN <<>> ELSE <<m.next_id>>)]

\* CerealData for EntityManager::write. fail: which of the three field
\* writes the underlying writer fails at (0: none); try! returns at the
\* first failure.
EntityManager_write(m, fail) ==
    IF Len(m.event_queue) # 0
    THEN [result |-> "Msg", written |-> NothingWritten]
    ELSE IF fail = 1 THEN [result |-> "Io", written |-> NothingWritten]
    ELSE IF fail = 2
    THEN [result |-> "Io",
          written |-> Written(IndexPool_write(m.indices), <<>>, <<>>)]
    ELSE [result |-> IF fail = 3 THEN "Io" ELSE "Ok",
          written |-> Written(IndexPool_write(m.indices),
                              entities_write(m.entities),
                              IF fail = 3 THEN <<>> ELSE <<m.next_id>>)]

(* ------------------------------- actions ------------------------------- *)
\* A call as its caller sees it: the operation, its argument (an Entity,
\* the attribute a builder writes or a writer fault), the Entity it returned
\* or found, its outcome.
Call(op, arg, ret, result) ==
    [op |-> op, arg |-> arg, ret |-> ret, result |-> result]

NothingYielded == [aspect |-> {}, items |-> <<>>]

\* The manager's four fields take the value m.
SetManager(m) ==
    /\ indices' = m.indices
    /\ entities' = m.entities
    /\ event_queue' = m.event_queue
    /\ next_id' = m.next_id

\* The largest number of entities the map has held, once it holds those of m.
Peak(m) ==
    IF Cardinality(DOMAIN m.entities) > peak
    THEN Cardinality(DOMAIN m.entities)
    ELSE peak

\* The observations of earlier calls are discarded.
NotFlushed == [queue |-> <<>>, done |-> 0]
NoFlush == flushed' = NotFlushed /\ notified' = <<>>
NoOutput == written' = NothingWritten /\ yielded' = NothingYielded

Init ==
    /\ indices = EntityManager_new.indices
    /\ entities = EntityManager_new.entities
    /\ event_queue = EntityManager_new.event_queue
    /\ next_id = EntityManager_new.next_id
    /\ components = NoComponents
    /\ panicked = FALSE
    /\ issued = <<>>
    /\ peak = 0
    /\ last_freed = <<>>
    /\ last = Call("new", 0, nil, "Ok")
    /\ flushed = NotFlushed
    /\ notified = <<>>
    /\ written = NothingWritten
    /\ yielded = NothingYielded

\* create(): a bare entity, no builder and no event.
create ==
    /\ ~panicked
    /\ next_id < MaxId
    /\ LET r == EntityManager_create(Self)
       IN /\ SetManager(r.m)
          /\ issued' = Append(issued, r.ret)
          /\ peak' = Peak(r.m)
          /\ last' = Call("create", 0, r.ret, "Ok")
    /\ last_freed' = <<>>
    /\ NoFlush /\ NoOutput
    /\ UNCHANGED <<components, panicked>>

\* create_entity body after create(): builder.build(BuildData(indexed), c),
\* then event_queue.push(BuildEntity(entity)). A builder is caller code and
\* may panic (unwinds = TRUE); the unwinding skips the rest of the body.
create_entity_pushed_first(r, b, unwinds) ==
    LET ix == indexed(r.m, r.ret).value
        m1 == [r.m EXCEPT !.event_queue = Append(@, BuildEntity(r.ret))]
    IN IF unwinds
       THEN [m |-> m1, c |-> components, log |-> <<>>, result |-> "Panic"]
       ELSE [m |-> m1, c |-> build(components, ix, b), log |-> <<>>,
             result |-> "Ok"]

\* A create_entity that notifies the systems at once, before its builder
\* has run, instead of queueing the event.
create_entity_activating(r, b, unwinds) ==
    LET ix == indexed(r.m, r.ret).value
        log == <<Note("activated", r.m, components, ix)>>
    IN IF unwinds
       THEN [m |-> r.m, c |-> components, log |-> log, result |-> "Panic"]
       ELSE [m |-> r.m, c |-> build(components, ix, b), log |-> log,
             result |-> "Ok"]

\* log: the collaborator notifications the body delivers (it delivers none).
create_entity_body(r, b, unwinds) ==
    LET ix == indexed(r.m, r.ret).value
    IN IF unwinds
       THEN [m |-> r.m, c |-> components, log |-> <<>>, result |-> "Panic"]
       ELSE [m |-> [r.m EXCEPT !.event_queue = Append(@, BuildEntity(r.ret))],
             c |-> build(components, ix, b),
             log |-> <<>>,
             result |-> "Ok"]

create_entity ==
    /\ ~panicked
    /\ next_id < MaxId
    /\ Len(event_queue) < MaxQueue
    /\ \E b \in BOOLEAN, unwinds \in BOOLEAN :
         LET r == EntityManager_create(Self)
             s == create_entity_body(r, b, unwinds)
         IN /\ SetManager(s.m)
            /\ components' = s.c
            /\ panicked' = unwinds
            /\ issued' = Append(issued, r.ret)
            /\ peak' = Peak(r.m)
            /\ notified' = s.log
            /\ last' = Call("create_entity", IF b THEN r.ret ELSE 0,
                            r.ret, s.result)
    /\ last_freed' = <<>>
    /\ flushed' = NotFlushed
    /\ NoOutput

\* A remove_entity that applies the removal at once.
EntityManager_remove_entity_eager(m, e) ==
    EntityManager_remove([m EXCEPT !.event_queue = Append(@, RemoveEntity(e))], e)

\* EntityManager::remove_entity: event_queue.push(RemoveEntity(entity))
EntityManager_remove_entity(m, e) ==
    [m EXCEPT !.event_queue = Append(@, RemoveEntity(e))]

remove_entity ==
    /\ ~panicked
    /\ Len(event_queue) < MaxQueue
    /\ \E e \in Held(next_id) :
         /\ SetManager(EntityManager_remove_entity(Self, e))
         /\ last' = Call("remove_entity", e, nil, "Ok")
    /\ NoFlush /\ NoOutput
    /\ UNCHANGED <<components, panicked, issued, peak, last_freed>>

\* remove(&entity), called directly.
remove ==
    /\ ~panicked
    /\ \E e \in Held(next_id) :
         LET m == EntityManager_remove(Self, e)
         IN /\ SetManager(m)
            /\ last' = Call("remove", e, nil, "Ok")
            /\ last_freed' = IF is_valid(Self, e)
                             THEN <<entities[e].index>>
                             ELSE last_freed
    /\ NoFlush /\ NoOutput
    /\ UNCHANGED <<components, panicked, issued, peak>>

\* The entities and indices a flush has removed: one per remove_all delivered.
Stripped(log) == SelectSeq(log, LAMBDA n : n.call = "remove_all")

flush_queue ==
    /\ ~panicked
    /\ LET st == EntityManager_flush_queue(Self, components)
           gone == Stripped(st.log)
       IN /\ SetManager(st.m)
          /\ components' = st.c
          /\ panicked' = st.panicked
          /\ flushed' = [queue |-> event_queue, done |-> st.done]
          /\ notified' = st.log
          /\ last_freed' = IF gone = <<>> THEN last_freed
                           ELSE <<Last(gone).index>>
          /\ last' = Call("flush_queue", 0, nil,
                          IF st.panicked THEN "Panic" ELSE "Ok")
    /\ NoOutput
    /\ UNCHANGED <<issued, peak>>

\* indexed(&entity), called directly.
call_indexed ==
    /\ ~panicked
    /\ \E e \in Entity :
         LET got == indexed(Self, e)
         IN /\ panicked' = ~got.ok
            /\ last' = Call("indexed", e, got.value.entity,
                            IF got.ok THEN "Ok" ELSE "Panic")
    /\ NoFlush /\ NoOutput
    /\ UNCHANGED <<mgr, components, issued, peak, last_freed>>

\* write(&self, writer): takes the manager by shared reference.
write ==
    /\ ~panicked
    /\ \E fail \in 0..3 :
         LET w == EntityManager_write(Self, fail)
         IN /\ written' = w.written
            /\ last' = Call("write", fail, nil, w.result)
    /\ NoFlush
    /\ yielded' = NothingYielded
    /\ UNCHANGED <<mgr, components, panicked, issued, peak, last_freed>>

\* iter().filter(aspect, components), consumed to exhaustion. A traversal
\* that follows another with no call in between sees the same map and the
\* same attribute tables; it is left out.
filter ==
    /\ ~panicked
    /\ last.op # "filter"
    /\ Cardinality(DOMAIN entities) <= MaxLive
    /\ \E aspect \in Aspects, order \in Orders(DOMAIN entities) :
         /\ yielded' = [aspect |-> aspect,
                        items |-> Collect(iter(Self, order), aspect, components)]
         /\ last' = Call("filter", 0, nil, "Ok")
    /\ NoFlush
    /\ written' = NothingWritten
    /\ UNCHANGED <<mgr, components, panicked, issued, peak, last_freed>>

\* The deferred protocol: creation, scheduled removal and flush.
NextDeferred ==
    \/ create
    \/ create_entity
    \/ remove_entity
    \/ flush_queue

SpecDeferred == Init /\ [][NextDeferred]_vars

\* Every mutating operation of the manager, the direct remove included.
Next ==
    \/ create
    \/ create_entity
    \/ remove_entity
    \/ remove
    \/ flush_queue

Spec == Init /\ [][Next]_vars

\* The pool and the map under bare creation, scheduled and direct removal
\* and flush (create_entity leaves the map and the pool as create does).
NextPool ==
    \/ create
    \/ remove_entity
    \/ remove
    \/ flush_queue

SpecPool == Init /\ [][NextPool]_vars

\* Lookups by indexed between bare creations, scheduled removals and
\* flushes (create_entity leaves the map and the pool as create does).
NextIndexed ==
    \/ create
    \/ remove_entity
    \/ flush_queue
    \/ call_indexed

SpecIndexed == Init /\ [][NextIndexed]_vars

\* Serialisation between bare creations, scheduled removals and flushes.
NextWrite ==
    \/ create
    \/ remove_entity
    \/ flush_queue
    \/ write

SpecWrite == Init /\ [][NextWrite]_vars

\* Filtered traversal between creations with a builder, flushes and direct
\* removals, which leave the attributes of the removed entity in place.
NextFilter ==
    \/ create_entity
    \/ flush_queue
    \/ remove
    \/ filter

SpecFilter == Init /\ [][NextFilter]_vars

(* ------------------------------ properties ----------------------------- *)
\* The manager after a step.
SelfNext == [indices |-> indices', entities |-> entities',
             event_queue |-> event_queue', next_id |-> next_id']

\* The step is a create or a create_entity: an identifier has been returned.
Creates == issued' # issued

\* The identifier a creating step returns, and the index bound to it.
Created == Last(issued')
CreatedIndex == entities'[Created].index

Min(S) == CHOOSE x \in S : \A y \in S : x <= y

\* C1: every identifier create or create_entity has returned is non-zero and
\* differs from every identifier returned before it, whether or not the
\* earlier one has since been removed.
C1_IdentifiersUniqueNonZero ==
    \A i \in 1..Len(issued) :
        /\ issued[i] # nil
        /\ \A j \in 1..Len(issued) : issued[i] = issued[j] => i = j

\* C1 witness: an identifier is returned after an earlier one was removed.
C1_Witness ==
    /\ last.op \in {"create", "create_entity"}
    /\ Len(issued) >= 3
    /\ \E i \in 1..Len(issued) : ~is_valid(Self, issued[i])
    /\ indices.recycled = <<>>

\* The RemoveEntity events the most recent flush processed.
ConsumedRemovals ==
    {flushed.queue[i].entity : i \in {k \in 1..flushed.done :
                                        flushed.queue[k].kind = "RemoveEntity"}}

\* C2: an identifier is valid right after the create that returned it; no
\* call other than flush_queue makes a valid issued identifier invalid, so
\* it stays valid after remove_entity until the flush; and after the flush
\* that consumes its RemoveEntity event it is not valid.
C2_ValidUntilFlushed ==
    /\ [](last.op \in {"create", "create_entity"} => is_valid(Self, last.ret))
    /\ [][last'.op # "flush_queue" =>
            \A e \in Range(issued) : is_valid(Self, e) => is_valid(SelfNext, e)]_vars
    /\ [](last.op = "flush_queue" =>
            \A e \in ConsumedRemovals : ~is_valid(Self, e))

\* C2 witness: a flush has consumed the RemoveEntity event of an issued
\* identifier that was queued behind another event.
C2_Witness ==
    /\ last.op = "flush_queue"
    /\ last.result = "Ok"
    /\ Len(flushed.queue) = 2
    /\ flushed.queue[2].kind = "RemoveEntity"
    /\ flushed.queue[2].entity \in Range(issued)
    /\ ~is_valid(Self, flushed.queue[2].entity)

\* C3: count() equals the number of identifiers in the entity map, which is
\* the number of identifiers is_valid accepts.
C3_CountIsLive ==
    /\ count(Self) = Cardinality(DOMAIN entities)
    /\ count(Self) = Cardinality({e \in Entity : is_valid(Self, e)})

\* C3 witness: some entities are live while freed indices wait for reuse.
C3_Witness ==
    /\ Len(indices.recycled) = 2
    /\ count(Self) = 2
    /\ event_queue # <<>>

\* e1, e2, e3 hold the indices 0, 1, 2.
ThreeCreated ==
    /\ next_id = 3
    /\ DOMAIN entities = {1, 2, 3}

\* ... and remove_entity(e2) is the one queued event.
RemovalOfSecondQueued ==
    /\ ThreeCreated
    /\ event_queue = <<RemoveEntity(2)>>

\* ... and the flush has removed e2 and freed its index.
SecondRemoved ==
    /\ next_id = 3
    /\ DOMAIN entities = {1, 3}
    /\ entities[1].index = 0
    /\ entities[3].index = 2
    /\ indices.recycled = <<1>>

\* C4: a created entity receives the index of the entity removed last, when
\* no entity was created since that removal. In the scenario e1, e2, e3 hold
\* the indices 0, 1, 2; flushing remove_entity(e2) leaves count() = 2, e2
\* invalid and index 1 free; the entity created next receives index 1 and
\* count() is 3.
C4_ReuseIsLifo ==
    /\ [][Creates /\ last_freed # <<>> => CreatedIndex = last_freed[1]]_vars
    /\ [](ThreeCreated => \A e \in 1..3 : entities[e].index = e - 1)
    /\ [][RemovalOfSecondQueued /\ last'.op = "flush_queue" =>
            /\ count(SelfNext) = 2
            /\ ~is_valid(SelfNext, 2)
            /\ SecondRemoved']_vars
    /\ [][SecondRemoved /\ Creates =>
            /\ Created = 4
            /\ CreatedIndex = 1
            /\ count(SelfNext) = 3]_vars

\* C4 witness: e4 has been created on the index the flush of e2 freed.
C4_Witness ==
    /\ last.op \in {"create", "create_entity"}
    /\ last.ret = 4
    /\ DOMAIN entities = {1, 3, 4}
    /\ entities[4].index = 1
    /\ entities[3].index = 2
    /\ count(Self) = 3

\* C5 as stated: a creating step receives the smallest freed index when one
\* is available, else the next unused index.
C5_SmallestFreedFirst ==
    [][Creates =>
         CreatedIndex = IF indices.recycled # <<>>
                        THEN Min(Range(indices.recycled))
                        ELSE indices.next_index]_vars

\* C5 amended: a creating step receives the most recently freed index that
\* is still in the pool when one is available, and takes it out of the pool;
\* else it receives the next unused index, and next_index grows by one.
C5_LastFreedFirst ==
    [][Creates =>
         IF indices.recycled # <<>>
         THEN /\ CreatedIndex = Last(indices.recycled)
              /\ indices'.recycled = Front(indices.recycled)
              /\ indices'.next_index = indices.next_index
         ELSE /\ CreatedIndex = indices.next_index
              /\ indices'.next_index = indices.next_index + 1
              /\ indices'.recycled = <<>>]_vars

\* C5 witness: an entity was created on index 1 while the smaller index 0
\* was free too and stays free.
C5_Witness ==
    /\ last.op \in {"create", "create_entity"}
    /\ entities[last.ret].index = 1
    /\ indices.recycled = <<0>>
    /\ indices.next_index = 2

\* The collaborator calls one event owes: BuildEntity an activation,
\* RemoveEntity a deactivation followed by a strip.
Owed(ev) ==
    IF ev.kind = "BuildEntity"
    THEN <<[call |-> "activated", entity |-> ev.entity]>>
    ELSE <<[call |-> "deactivated", entity |-> ev.entity],
           [call |-> "remove_all", entity |-> ev.entity]>>

\* The calls a queue owes, in the order of its events.
RECURSIVE OwedAll(_)
OwedAll(queue) ==
    IF queue = <<>> THEN <<>> ELSE Owed(Head(queue)) \o OwedAll(Tail(queue))

\* The calls the most recent flush delivered, as call and entity.
Delivered ==
    [i \in 1..Len(notified) |->
        [call |-> notified[i].call, entity |-> notified[i].entity]]

\* C6: a flush of events that name identifiers this manager returned
\* delivers, for every queued event, exactly the calls it owes, in the order
\* the events were queued.
C6_FlushDeliversEveryEvent ==
    (/\ last.op = "flush_queue"
     /\ \A i \in 1..Len(flushed.queue) : flushed.queue[i].entity \in Range(issued))
    => Delivered = OwedAll(flushed.queue)

\* C7: when create_entity returns, the attribute the builder wrote is at
\* the new entity's index and the BuildEntity event of the entity is the
\* newest event of the queue; if the builder did not run to completion the
\* event is not in the queue.
C7_BuilderRunsAtCreation ==
    last.op = "create_entity" =>
        IF last.result = "Ok"
        THEN /\ is_valid(Self, last.ret)
             /\ last.arg # 0 => components[entities[last.ret].index] = last.arg
             /\ event_queue # <<>>
             /\ Last(event_queue) = BuildEntity(last.ret)
             /\ \A i \in 1..(Len(event_queue) - 1) :
                    event_queue[i] # BuildEntity(last.ret)
             /\ notified = <<>>
        ELSE BuildEntity(last.ret) \notin Range(event_queue)

\* C7 witness: create_entity has returned behind an earlier event, its
\* builder having written an attribute, and nothing has been flushed.
C7_Witness ==
    /\ last.op = "create_entity"
    /\ last.result = "Ok"
    /\ last.arg = last.ret
    /\ components[entities[last.ret].index] = last.ret
    /\ Len(event_queue) = 2
    /\ event_queue[2] = BuildEntity(last.ret)

\* C8: write returns the explicit error exactly when the event queue is not
\* empty, then writes nothing; and no write changes the manager's map,
\* index pool, next_id or event queue.
C8_WriteRejectsPendingEvents ==
    /\ [](last.op = "write" =>
            /\ (last.result = "Msg") <=> (event_queue # <<>>)
            /\ last.result = "Msg" => written = NothingWritten
            /\ last.result = "Ok" =>
                 written = Written(IndexPool_write(indices),
                                   entities_write(entities), <<next_id>>))
    /\ [][last'.op = "write" => UNCHANGED mgr]_vars

\* C8 witness: write was refused with one unflushed RemoveEntity pending.
C8_Witness ==
    /\ last.op = "write"
    /\ last.result = "Msg"
    /\ Len(event_queue) = 1
    /\ event_queue[1].kind = "RemoveEntity"
    /\ is_valid(Self, event_queue[1].entity)
    /\ written = NothingWritten

\* The live entities the aspect of the most recent traversal accepts.
Matching ==
    {e \in DOMAIN entities : check(yielded.aspect, entities[e], components)}

\* C9: a filtered traversal yields as many elements as there are live
\* entities satisfying the aspect; each is the binding of a live entity that
\* satisfies it, no two are the same, and none that satisfies it is missing.
C9_FilterYieldsExactlyMatching ==
    last.op = "filter" =>
        /\ Len(yielded.items) = Cardinality(Matching)
        /\ \A i \in 1..Len(yielded.items) :
              /\ is_valid(Self, yielded.items[i].entity)
              /\ yielded.items[i] = entities[yielded.items[i].entity]
              /\ check(yielded.aspect, yielded.items[i], components)
        /\ \A i, j \in 1..Len(yielded.items) :
              yielded.items[i] = yielded.items[j] => i = j
        /\ {yielded.items[i].entity : i \in 1..Len(yielded.items)} = Matching

\* C9 witness: of three live entities one satisfies the aspect and is
\* yielded, the two others are not.
C9_Witness ==
    /\ last.op = "filter"
    /\ Cardinality(DOMAIN entities) = 3
    /\ Len(yielded.items) = 1
    /\ yielded.aspect = {TRUE}

\* C10: indexed(e) succeeds exactly when is_valid(e) holds and then returns
\* the binding of the map whose identifier is e; otherwise it panics.
C10_IndexedIffValid ==
    last.op = "indexed" =>
        /\ (last.result = "Ok") <=> is_valid(Self, last.arg)
        /\ (last.result = "Panic") <=> ~is_valid(Self, last.arg)
        /\ panicked <=> (last.result = "Panic")
        /\ last.result = "Ok" => last.ret = last.arg /\ last.ret # nil

\* C10 witness: indexed has panicked on an identifier a flush had removed.
C10_Witness ==
    /\ last.op = "indexed"
    /\ last.result = "Panic"
    /\ panicked
    /\ last.arg \in Range(issued)

\* C11: remove_entity(e) only appends RemoveEntity(e) to the event queue: the
\* map, the pool (next_index and recycled), next_id, count() and is_valid of
\* every identifier, e included, are what they were before the call.
C11_RemoveEntityOnlyQueues ==
    [][last'.op = "remove_entity" =>
          /\ event_queue' = Append(event_queue, RemoveEntity(last'.arg))
          /\ entities' = entities
          /\ indices'.next_index = indices.next_index
          /\ indices'.recycled = indices.recycled
          /\ next_id' = next_id
          /\ count(SelfNext) = count(Self)
          /\ \A e \in Entity : is_valid(SelfNext, e) <=> is_valid(Self, e)]_vars

\* C11 witness: the removal of a live entity has been scheduled behind
\* another event, and the entity is still live.
C11_Witness ==
    /\ last.op = "remove_entity"
    /\ is_valid(Self, last.arg)
    /\ Len(event_queue) = 2
    /\ Last(event_queue) = RemoveEntity(last.arg)
    /\ count(Self) = Cardinality(DOMAIN entities)
    /\ count(Self) >= 2

\* The events of the queue the most recent flush took name only identifiers
\* this manager has returned.
FlushedIssuedOnly ==
    \A i \in 1..Len(flushed.queue) : flushed.queue[i].entity \in Range(issued)

\* C12: when remove_entity is called only with identifiers the manager has
\* returned (the same one possibly more than once), no lookup of a flush
\* fails: the flush returns normally, having processed every event of the
\* queue it took and leaving none of them behind.
C12_FlushNeverFails ==
    (last.op = "flush_queue" /\ FlushedIssuedOnly) =>
        /\ last.result = "Ok"
        /\ ~panicked
        /\ flushed.done = Len(flushed.queue)
        /\ event_queue = <<>>

\* The event the most recent flush reached last: the one whose lookup failed
\* when the flush panicked.
FailedAt == flushed.done + 1

\* C13: whenever a flush reaches a BuildEntity(id) event, id is in the map
\* and the lookup of its binding succeeds: no flush fails at a BuildEntity
\* event, whatever sequence of create, create_entity, remove_entity, remove
\* and flush_queue came before.
C13_BuildEntityFindsBinding ==
    (last.op = "flush_queue" /\ FailedAt <= Len(flushed.queue)) =>
        flushed.queue[FailedAt].kind # "BuildEntity"

\* The indices of the entities a flush log strips, in order.
StrippedIndices(log) ==
    [i \in 1..Len(Stripped(log)) |-> Stripped(log)[i].index]

\* C14: for every RemoveEntity(id) event a flush processes, __deactivated is
\* delivered with the binding id had before the flush, while id is in the
\* map, its index is not in the recycled list and the attribute at the index
\* is the one held before the flush; the next call delivered is __remove_all
\* for the same binding, still mapped and not recycled, after which no
\* attribute is left at the index; when the flush ends id is out of the map
\* and the indices of the removed entities have been pushed onto recycled in
\* the order of their events.
C14_DeactivateStripFree ==
    [][last'.op = "flush_queue" =>
          /\ \A i \in 1..Len(notified') :
                notified'[i].call = "deactivated" =>
                    /\ is_valid(Self, notified'[i].entity)
                    /\ entities[notified'[i].entity].index = notified'[i].index
                    /\ notified'[i].live
                    /\ ~notified'[i].free
                    /\ notified'[i].attr = components[notified'[i].index]
                    /\ i < Len(notified')
                    /\ notified'[i + 1].call = "remove_all"
                    /\ notified'[i + 1].entity = notified'[i].entity
                    /\ notified'[i + 1].index = notified'[i].index
          /\ \A i \in 1..Len(notified') :
                notified'[i].call = "remove_all" =>
                    /\ notified'[i].live
                    /\ ~notified'[i].free
                    /\ notified'[i].attr = 0
                    /\ i > 1
                    /\ notified'[i - 1].call = "deactivated"
                    /\ ~is_valid(SelfNext, notified'[i].entity)
                    /\ notified'[i].index \in Range(indices'.recycled)
                    /\ components'[notified'[i].index] = 0
          /\ indices'.recycled =
                 indices.recycled \o StrippedIndices(notified')
          /\ indices'.next_index = indices.next_index]_vars

\* C14 witness: a flush has removed two entities; the first was deactivated
\* while its builder's attribute was still at its index.
C14_Witness ==
    /\ last.op = "flush_queue"
    /\ Len(notified) = 4
    /\ notified[1].call = "deactivated"
    /\ notified[1].attr = notified[1].entity
    /\ notified[1].attr # 0
    /\ notified[2].call = "remove_all"
    /\ notified[3].call = "deactivated"
    /\ Len(indices.recycled) >= 2

\* The activation of e is scheduled: BuildEntity(e) is in the queue.
Pending(e) == BuildEntity(e) \in Range(event_queue)
PendingNext(e) == BuildEntity(e) \in Range(event_queue')

\* C15: no activation is delivered before the builder has completed.
\* create_entity delivers no notification; BuildEntity(e) enters the queue
\* only by a create_entity for e whose builder ran to completion, with what
\* the builder wrote at the index of e; until the flush no call changes the
\* attribute at the index of an entity whose activation is scheduled; and
\* every __activated a flush delivers is for an entity whose activation was
\* scheduled, which is in the map, whose index is not recycled, and sees at
\* the entity's index the attribute held there before the flush.
C15_ActivationAfterBuilder ==
    [][/\ last'.op = "create_entity" => notified' = <<>>
       /\ \A e \in Entity :
             (PendingNext(e) /\ ~Pending(e)) =>
                 /\ last'.op = "create_entity"
                 /\ last'.result = "Ok"
                 /\ last'.ret = e
                 /\ is_valid(SelfNext, e)
                 /\ last'.arg # 0 => components'[entities'[e].index] = e
       /\ last'.op # "flush_queue" =>
             \A e \in DOMAIN entities :
                 Pending(e) =>
                     /\ PendingNext(e)
                     /\ is_valid(SelfNext, e)
                     /\ entities'[e] = entities[e]
                     /\ components'[entities[e].index] =
                            components[entities[e].index]
       /\ last'.op = "flush_queue" =>
             \A i \in 1..Len(notified') :
                 notified'[i].call = "activated" =>
                     /\ Pending(notified'[i].entity)
                     /\ is_valid(Self, notified'[i].entity)
                     /\ notified'[i].index = entities[notified'[i].entity].index
                     /\ notified'[i].live
                     /\ ~notified'[i].free
                     /\ notified'[i].attr = components[notified'[i].index]]_vars

\* C15 witness: a flush has removed one entity and then activated another,
\* which was created on a recycled index and shows its builder's attribute.
C15_Witness ==
    /\ last.op = "flush_queue"
    /\ Len(notified) = 3
    /\ notified[3].call = "activated"
    /\ notified[3].attr = notified[3].entity
    /\ notified[3].index = 0
    /\ notified[3].entity >= 3
    /\ is_valid(Self, notified[3].entity)

\* The indices bound to the live entities.
LiveIndices == {entities[e].index : e \in DOMAIN entities}

\* C17: every value in recycled is below next_index, no value occurs in it
\* twice, and none is the index of an entity in the map.
C17_RecycledFreshDistinctFree ==
    /\ \A i \in 1..Len(indices.recycled) :
          /\ indices.recycled[i] >= 0
          /\ indices.recycled[i] < indices.next_index
    /\ \A i, j \in 1..Len(indices.recycled) :
          indices.recycled[i] = indices.recycled[j] => i = j
    /\ Range(indices.recycled) \cap LiveIndices = {}

\* C17 witness: after a direct remove of an entity the manager had issued,
\* two indices are in recycled, the larger freed first, next to a live
\* entity and a pending event.
C17_Witness ==
    /\ last.op = "remove"
    /\ last.arg \in Range(issued)
    /\ ~is_valid(Self, last.arg)
    /\ Len(indices.recycled) = 2
    /\ indices.recycled[1] > indices.recycled[2]
    /\ Cardinality(DOMAIN entities) >= 1
    /\ event_queue # <<>>

\* C18: no two distinct identifiers of the map are bound to the same index;
\* the entry for key e holds the identifier e; an identifier enters the map
\* only when it is created, bound to the index get_index handed out for it,
\* and its entry does not change for as long as it stays in the map.
C18_OneIndexPerEntity ==
    /\ [](\A e \in DOMAIN entities :
             /\ entities[e].entity = e
             /\ \A f \in DOMAIN entities :
                   entities[e].index = entities[f].index => e = f)
    /\ [][/\ \A e \in DOMAIN entities \cap DOMAIN entities' :
                entities'[e] = entities[e]
          /\ \A e \in DOMAIN entities' \ DOMAIN entities :
                /\ Creates
                /\ e = Created
                /\ entities'[e] = IndexedEntity(get_index(indices).id, e)]_vars

\* C18 witness: three entities are live; one of them was created on the
\* index a removed entity had held, below the index of an older entity.
C18_Witness ==
    /\ Cardinality(DOMAIN entities) = 3
    /\ \E e, f \in DOMAIN entities :
          /\ e < f
          /\ entities[e].index > entities[f].index
    /\ last.op \in {"create", "create_entity"}
    /\ Len(issued) = 4

\* C19: the indices of the live entities and the recycled indices are
\* together exactly 0 .. next_index - 1, no index is in both groups, and
\* next_index is the largest number of entities the map has held at once.
C19_IndicesDense ==
    /\ LiveIndices \cup Range(indices.recycled) = 0..(indices.next_index - 1)
    /\ LiveIndices \cap Range(indices.recycled) = {}
    /\ indices.next_index = peak

\* C19 witness: the map has held three entities at once and holds one now;
\* a fourth creation has reused a freed index and minted none.
C19_Witness ==
    /\ peak = 3
    /\ indices.next_index = 3
    /\ Len(issued) = 4
    /\ Cardinality(DOMAIN entities) = 1
    /\ Len(indices.recycled) = 2
    /\ is_valid(Self, Last(issued))

\* C20: a direct remove(e) of an identifier that is not in the map changes
\* nothing (map, recycled, next_index, next_id, event queue, attributes); a
\* remove(e) of an identifier in the map deletes exactly its binding, pushes
\* exactly its index onto recycled and changes nothing else; in both cases a
\* second remove(e) would change nothing.
C20_RemoveExactOrNothing ==
    [][last'.op = "remove" =>
          /\ IF is_valid(Self, last'.arg)
             THEN /\ entities' = Delete(entities, last'.arg)
                  /\ indices'.recycled =
                         Append(indices.recycled, entities[last'.arg].index)
                  /\ indices'.next_index = indices.next_index
             ELSE /\ entities' = entities
                  /\ indices' = indices
          /\ UNCHANGED <<next_id, event_queue, components>>
          /\ EntityManager_remove(SelfNext, last'.arg) = SelfNext]_vars

\* C20 witness: remove is called again for an entity that was removed
\* before a later creation reused its index; the index is bound to the new
\* entity and is not freed.
C20_Witness ==
    /\ last.op = "remove"
    /\ last.arg \in Range(issued)
    /\ ~is_valid(Self, last.arg)
    /\ last_freed = <<>>
    /\ indices.recycled = <<>>
    /\ Cardinality(DOMAIN entities) = 2
    /\ \E e \in DOMAIN entities : e > last.arg /\ entities[e].index = 0

====
